---- MODULE Spec2Model ----
(***************************************************************************)
(* Model of src/i18n.ts: the I18n class.  Strings are TLA+ strings read    *)
(* one character at a time; positions are 0-based as in the source.        *)
(***************************************************************************)
EXTENDS Integers, Sequences, FiniteSets, TLC

(* ------------------------------------------------------------------ *)
(* Sentinels                                                            *)
(* ------------------------------------------------------------------ *)

NOT_FOUND_VALUE == "?..?"

ERROR_VALUE == "?**?"

DEFAULT_LANG == "en"

(* ------------------------------------------------------------------ *)
(* JavaScript string primitives used by the source                      *)
(* ------------------------------------------------------------------ *)

Min(a, b) == IF a < b THEN a ELSE b

Max(a, b) == IF a > b THEN a ELSE b

\* s.substring(a, b): both ends clamped to [0, length], swapped if a > b
Clamp(s, a) == Max(0, Min(a, Len(s)))

substring(s, a, b) ==
  SubSeq(s, Min(Clamp(s, a), Clamp(s, b)) + 1, Max(Clamp(s, a), Clamp(s, b)))

\* s.substring(a)
substringFrom(s, a) == substring(s, a, Len(s))

\* s[i]; the empty string stands for undefined (index out of range)
charAt(s, i) == IF i >= 0 /\ i < Len(s) THEN SubSeq(s, i + 1, i + 1) ELSE ""

\* s.slice(0, -n)
sliceDropLast(s, n) == substring(s, 0, Max(0, Len(s) - n))

\* /\d/
IsDigit(c) == c \in {"0", "1", "2", "3", "4", "5", "6", "7", "8", "9"}

\* /\w/ : ASCII letters, digits and underscore only
IsWord(c) ==
  \/ IsDigit(c)
  \/ c \in {"a", "b", "c", "d", "e", "f", "g", "h", "i", "j", "k", "l", "m",
            "n", "o", "p", "q", "r", "s", "t", "u", "v", "w", "x", "y", "z"}
  \/ c \in {"A", "B", "C", "D", "E", "F", "G", "H", "I", "J", "K", "L", "M",
            "N", "O", "P", "Q", "R", "S", "T", "U", "V", "W", "X", "Y", "Z"}
  \/ c = "_"

\* /\s/ : space, \t, \n, \f, \r, and the characters written as themselves in
\* the second set: U+000B (\v), U+00A0, U+1680 and U+FEFF.  The other space
\* separators of /\s/ (U+2000 to U+200A, U+2028, U+2029, U+202F, U+205F,
\* U+3000) cannot be written in a string of this language, so no text here
\* holds them.
IsSpace(c) ==
  \/ c \in {" ", "\t", "\n", "\f", "\r"}
  \/ c \in {"", " ", " ", "﻿"}

\* [^:}] of AUTO_PLURAL_REGEX
IsNotColonBrace(c) == c # "" /\ c # ":" /\ c # "}"

DigitValue(c) ==
  CASE c = "0" -> 0 [] c = "1" -> 1 [] c = "2" -> 2 [] c = "3" -> 3
    [] c = "4" -> 4 [] c = "5" -> 5 [] c = "6" -> 6 [] c = "7" -> 7
    [] c = "8" -> 8 [] c = "9" -> 9

DigitChar(d) ==
  CASE d = 0 -> "0" [] d = 1 -> "1" [] d = 2 -> "2" [] d = 3 -> "3"
    [] d = 4 -> "4" [] d = 5 -> "5" [] d = 6 -> "6" [] d = 7 -> "7"
    [] d = 8 -> "8" [] d = 9 -> "9"

\* unary + on a string of decimal digits; +'' is 0
RECURSIVE ToNumberAcc(_, _, _)
ToNumberAcc(s, i, acc) ==
  IF i >= Len(s) THEN acc
  ELSE ToNumberAcc(s, i + 1, acc * 10 + DigitValue(charAt(s, i)))

ToNumber(s) == ToNumberAcc(s, 0, 0)

\* String(n) for an integer n
RECURSIVE NatToString(_)
NatToString(n) ==
  IF n < 10 THEN DigitChar(n) ELSE NatToString(n \div 10) \o DigitChar(n % 10)

NumberToString(n) == IF n < 0 THEN "-" \o NatToString(0 - n) ELSE NatToString(n)

\* end of the longest run of word characters starting at i
RECURSIVE WordRunEnd(_, _)
WordRunEnd(s, i) ==
  IF i < Len(s) /\ IsWord(charAt(s, i)) THEN WordRunEnd(s, i + 1) ELSE i

\* end of the longest run of digits starting at i
RECURSIVE DigitRunEnd(_, _)
DigitRunEnd(s, i) ==
  IF i < Len(s) /\ IsDigit(charAt(s, i)) THEN DigitRunEnd(s, i + 1) ELSE i

\* end of the longest run of whitespace starting at i
RECURSIVE SpaceRunEnd(_, _)
SpaceRunEnd(s, i) ==
  IF i < Len(s) /\ IsSpace(charAt(s, i)) THEN SpaceRunEnd(s, i + 1) ELSE i

\* end of the longest run of characters other than ':' and '}' starting at i
RECURSIVE NotColonBraceRunEnd(_, _)
NotColonBraceRunEnd(s, i) ==
  IF i < Len(s) /\ IsNotColonBrace(charAt(s, i))
  THEN NotColonBraceRunEnd(s, i + 1) ELSE i

\* String.prototype.replace copies the text between matches unchanged: the
\* first position after p where a match of a "{{" pattern can start
RECURSIVE NextOpenBrace(_, _)
NextOpenBrace(s, p) ==
  IF p + 1 < Len(s) /\ charAt(s, p + 1) # "{" THEN NextOpenBrace(s, p + 1)
  ELSE p + 1

(* ------------------------------------------------------------------ *)
(* Argument values: string | number, and undefined for a missing name   *)
(* ------------------------------------------------------------------ *)

Num(n) == [t |-> "number", n |-> n, s |-> "", m |-> <<>>]

Str(s) == [t |-> "string", n |-> 0, s |-> s, m |-> <<>>]

\* a MappedParams object: m maps names to string | number values
Obj(m) == [t |-> "object", n |-> 0, s |-> "", m |-> m]

Undefined == [t |-> "undefined", n |-> 0, s |-> "", m |-> <<>>]

\* a built-in function; s is what String(value) gives
Builtin(name) ==
  [t |-> "function", n |-> 0, s |-> "function " \o name \o "() { [native code] }",
   m |-> <<>>]

\* the properties a plain object inherits from Object.prototype
ObjectPrototypeNames ==
  {"constructor", "toString", "toLocaleString", "valueOf", "hasOwnProperty",
   "isPrototypeOf", "propertyIsEnumerable", "__proto__", "__defineGetter__",
   "__defineSetter__", "__lookupGetter__", "__lookupSetter__"}

\* obj[name] for a name obj inherits: the constructor is Object, __proto__
\* is Object.prototype itself, the others are methods named as the property
Inherited(name) ==
  CASE name = "constructor" -> Builtin("Object")
    [] name = "__proto__" -> Obj(<<>>)
    [] OTHER -> Builtin(name)

\* params[name] on a MappedParams object: an own property, else one
\* inherited from Object.prototype, else undefined
Lookup(params, name) ==
  IF name \in DOMAIN params THEN params[name]
  ELSE IF name \in ObjectPrototypeNames THEN Inherited(name)
  ELSE Undefined

\* params[+index] on the rest-argument array (0-based)
ArrayAt(params, index) ==
  IF index >= 0 /\ index < Len(params) THEN params[index + 1] ELSE Undefined

\* String(value)
ToStr(v) ==
  CASE v.t = "number" -> NumberToString(v.n)
    [] v.t = "object" -> "[object Object]"
    [] OTHER -> v.s

(* ------------------------------------------------------------------ *)
(* Intl.PluralRules as the source uses it                               *)
(* ------------------------------------------------------------------ *)

\* locales for which new Intl.PluralRules(locale) succeeds; any other tag
\* in the model is structurally invalid and makes the constructor throw
PluralRulesLocales == {"en", "fr", "de", "ar", "en-US"}

\* rules.select(count) for a non-negative integer count
\* the cardinal category of a non-negative integer
PluralRulesCategory(loc, count) ==
  CASE loc = "fr" ->
         IF count \in {0, 1} THEN "one"
         ELSE IF count % 1000000 = 0 THEN "many"
         ELSE "other"
    [] loc = "ar" ->
         IF count = 0 THEN "zero"
         ELSE IF count = 1 THEN "one"
         ELSE IF count = 2 THEN "two"
         ELSE IF count % 100 \in 3..10 THEN "few"
         ELSE IF count % 100 \in 11..99 THEN "many"
         ELSE "other"
    [] OTHER -> IF count = 1 THEN "one" ELSE "other"

\* select(count): the rules read the absolute value of the number
PluralRulesSelect(loc, count) ==
  PluralRulesCategory(loc, IF count < 0 THEN 0 - count ELSE count)

\* A call result: a value, or a thrown exception.  rules records whether
\* the call went through getPluralForm and so left an entry in
\* pluralRulesCache.
Ok(v, r) == [threw |-> FALSE, val |-> v, rules |-> r]

Threw == [threw |-> TRUE, val |-> "", rules |-> FALSE]

getPluralForm(loc, count) ==
  IF loc \in PluralRulesLocales
  THEN Ok(PluralRulesSelect(loc, count), TRUE)
  ELSE Threw

(* ------------------------------------------------------------------ *)
(* pluralizeWord                                                        *)
(* ------------------------------------------------------------------ *)

ToLower(c) ==
  CASE c = "S" -> "s" [] c = "X" -> "x" [] c = "Z" -> "z" [] c = "A" -> "a"
    [] c = "U" -> "u" [] c = "E" -> "e" [] c = "L" -> "l" [] c = "H" -> "h"
    [] c = "C" -> "c" [] c = "Y" -> "y" [] c = "I" -> "i" [] c = "O" -> "o"
    [] OTHER -> c

\* the last n characters, lower-cased (the /i flag of the suffix tests)
RECURSIVE LowerAll(_)
LowerAll(s) ==
  IF Len(s) = 0 THEN "" ELSE ToLower(charAt(s, 0)) \o LowerAll(substringFrom(s, 1))

EndsWithI(word, suffix) ==
  /\ Len(word) >= Len(suffix)
  /\ LowerAll(substringFrom(word, Len(word) - Len(suffix))) = suffix

\* /[^aeiou]y$/i : any character but a vowel, then y
EndsConsonantY(word) ==
  /\ Len(word) >= 2
  /\ ToLower(charAt(word, Len(word) - 1)) = "y"
  /\ ToLower(charAt(word, Len(word) - 2)) \notin {"a", "e", "i", "o", "u"}

EndsWith(word, suffix) ==
  Len(word) >= Len(suffix) /\ substringFrom(word, Len(word) - Len(suffix)) = suffix

\* pluralizeWord with the suffix tests lacking the i flag
pluralizeWordCaseSensitive(loc, word) ==
  IF loc = "fr" THEN
    IF EndsWith(word, "s") \/ EndsWith(word, "x") \/ EndsWith(word, "z")
    THEN word
    ELSE IF EndsWith(word, "au") \/ EndsWith(word, "eau") \/ EndsWith(word, "eu")
    THEN word \o "x"
    ELSE IF EndsWith(word, "al")
    THEN sliceDropLast(word, 2) \o "aux"
    ELSE word \o "s"
  ELSE IF loc = "en" THEN
    IF \/ EndsWith(word, "s") \/ EndsWith(word, "sh") \/ EndsWith(word, "ch")
       \/ EndsWith(word, "x") \/ EndsWith(word, "z")
    THEN word \o "es"
    ELSE IF /\ Len(word) >= 2
            /\ charAt(word, Len(word) - 1) = "y"
            /\ charAt(word, Len(word) - 2) \notin {"a", "e", "i", "o", "u"}
    THEN sliceDropLast(word, 1) \o "ies"
    ELSE word \o "s"
  ELSE word \o "s"

pluralizeWord(loc, word) ==
  IF loc = "fr" THEN
    IF EndsWithI(word, "s") \/ EndsWithI(word, "x") \/ EndsWithI(word, "z")
    THEN word
    ELSE IF EndsWithI(word, "au") \/ EndsWithI(word, "eau") \/ EndsWithI(word, "eu")
    THEN word \o "x"
    ELSE IF EndsWithI(word, "al")
    THEN sliceDropLast(word, 2) \o "aux"
    ELSE word \o "s"
  ELSE IF loc = "en" THEN
    IF \/ EndsWithI(word, "s") \/ EndsWithI(word, "sh") \/ EndsWithI(word, "ch")
       \/ EndsWithI(word, "x") \/ EndsWithI(word, "z")
    THEN word \o "es"
    ELSE IF EndsConsonantY(word)
    THEN sliceDropLast(word, 1) \o "ies"
    ELSE word \o "s"
  ELSE word \o "s"


(* ------------------------------------------------------------------ *)
(* parsePluralForms                                                     *)
(* ------------------------------------------------------------------ *)

\* the depth after reading character c
depthAfter(c, depth) ==
  IF c = "{" THEN depth + 1 ELSE IF c = "}" THEN depth - 1 ELSE depth

\* the content loop: from i (just past an opening brace) to the matching
\* closing brace, or to the end of the text
RECURSIVE extractContent(_, _, _, _)
extractContent(formsStr, i, depth, content) ==
  IF i < Len(formsStr) /\ depth > 0
  THEN extractContent(formsStr, i + 1, depthAfter(charAt(formsStr, i), depth),
                      IF depthAfter(charAt(formsStr, i), depth) > 0
                      THEN content \o charAt(formsStr, i) ELSE content)
  ELSE [i |-> i, content |-> content]

\* map.set(key, value), and obj[key] = value for a key that is a number
Put(obj, key, value) ==
  [k \in DOMAIN obj \cup {key} |-> IF k = key THEN value ELSE obj[k]]

\* obj[key] = value on a plain object, value a string: "__proto__" reaches
\* the setter of Object.prototype, which ignores a string, and obj gains no
\* property
SetProperty(obj, key, value) ==
  IF key = "__proto__" THEN obj ELSE Put(obj, key, value)

RECURSIVE parseFormsLoop(_, _, _, _)

\* lines 358-363: store the entry, then the next iteration
storeForm(formsStr, isExact, keyText, c, forms, exactMatches) ==
  IF isExact
  THEN parseFormsLoop(formsStr, c.i, forms,
                      Put(exactMatches, ToNumber(keyText), c.content))
  ELSE IF keyText # ""
  THEN parseFormsLoop(formsStr, c.i, SetProperty(forms, keyText, c.content),
                      exactMatches)
  ELSE parseFormsLoop(formsStr, c.i, forms, exactMatches)

\* lines 342-356: whitespace was skipped up to i; an opening brace must follow
parseFormContent(formsStr, isExact, keyText, i, forms, exactMatches) ==
  IF i >= Len(formsStr) \/ charAt(formsStr, i) # "{"
  THEN [forms |-> forms, exactMatches |-> exactMatches]
  ELSE storeForm(formsStr, isExact, keyText,
                 extractContent(formsStr, i + 1, 1, ""), forms, exactMatches)

\* lines 325-340: the key of an entry, =N or a name, starting at i
parseFormKey(formsStr, i, forms, exactMatches) ==
  IF i >= Len(formsStr) THEN [forms |-> forms, exactMatches |-> exactMatches]
  ELSE IF charAt(formsStr, i) = "="
  THEN parseFormContent(formsStr, TRUE,
         substring(formsStr, i + 1, DigitRunEnd(formsStr, i + 1)),
         SpaceRunEnd(formsStr, DigitRunEnd(formsStr, i + 1)), forms, exactMatches)
  ELSE parseFormContent(formsStr, FALSE,
         substring(formsStr, i, WordRunEnd(formsStr, i)),
         SpaceRunEnd(formsStr, WordRunEnd(formsStr, i)), forms, exactMatches)

\* the entry loop: forms by name and exactMatches by number
parseFormsLoop(formsStr, i, forms, exactMatches) ==
  IF i >= Len(formsStr) THEN [forms |-> forms, exactMatches |-> exactMatches]
  ELSE parseFormKey(formsStr, SpaceRunEnd(formsStr, i), forms, exactMatches)

\* forms[pluralForm] ?? forms.other ?? '' with no fallback to other
selectFormNoOther(forms, pluralForm) ==
  IF pluralForm \in DOMAIN forms THEN forms[pluralForm] ELSE ""

\* forms[pluralForm] ?? forms.other ?? ''
selectForm(forms, pluralForm) ==
  IF pluralForm \in DOMAIN forms THEN forms[pluralForm]
  ELSE IF "other" \in DOMAIN forms THEN forms["other"]
  ELSE ""

\* lines 371-375
selectByCategory(forms, pluralForm) ==
  IF pluralForm.threw THEN Threw ELSE Ok(selectForm(forms, pluralForm.val), TRUE)

\* the category looked at before the exact matches
selectParsedCategoryFirst(loc, value, parsed) ==
  IF PluralRulesSelect(loc, value) \in DOMAIN parsed.forms
  THEN selectByCategory(parsed.forms, getPluralForm(loc, value))
  ELSE IF value \in DOMAIN parsed.exactMatches
  THEN Ok(parsed.exactMatches[value], FALSE)
  ELSE selectByCategory(parsed.forms, getPluralForm(loc, value))

\* lines 366-375
selectParsed(loc, value, parsed) ==
  IF value \in DOMAIN parsed.exactMatches
  THEN Ok(parsed.exactMatches[value], FALSE)
  ELSE selectByCategory(parsed.forms, getPluralForm(loc, value))

parsePluralForms(loc, formsStr, value) ==
  selectParsed(loc, value, parseFormsLoop(formsStr, 0, <<>>, <<>>))

(* ------------------------------------------------------------------ *)
(* interpolateNamed                                                     *)
(* ------------------------------------------------------------------ *)

NoVarMatch == [matched |-> FALSE, varName |-> "", len |-> 0]

\* the tail of the pattern: \s*plural,\s* from k, after the name of length w
execVarMatchTail(s, w, k) ==
  IF substring(s, k, k + 7) = "plural,"
  THEN [matched |-> TRUE, varName |-> substring(s, 0, w),
        len |-> SpaceRunEnd(s, k + 7)]
  ELSE NoVarMatch

\* the head of the pattern: a name of length w >= 1 and a comma
execVarMatchName(s, w) ==
  IF w >= 1 /\ charAt(s, w) = ","
  THEN execVarMatchTail(s, w, SpaceRunEnd(s, w + 1))
  ELSE NoVarMatch

\* /^(\w+),\s*plural,\s*/.exec(s)
execVarMatch(s) == execVarMatchName(s, WordRunEnd(s, 0))

\* the inner while loop: advance j until depth is 0 or the text ends
RECURSIVE findClose(_, _, _)
findClose(result, j, depth) ==
  IF j < Len(result) /\ depth > 0
  THEN findClose(result, j + 1, depthAfter(charAt(result, j), depth))
  ELSE [j |-> j, depth |-> depth]

NoMatches == [threw |-> FALSE, matches |-> <<>>, rules |-> FALSE]

MatchesThrew == [threw |-> TRUE, matches |-> <<>>, rules |-> FALSE]

\* pluralMatches.push({ start, end, replacement }), then the rest of the scan
pushMatch(start, end, replacement, rest) ==
  IF replacement.threw \/ rest.threw THEN MatchesThrew
  ELSE [threw |-> FALSE,
        matches |-> <<[start |-> start, end |-> end,
                       replacement |-> replacement.val]>> \o rest.matches,
        rules |-> replacement.rules \/ rest.rules]

RECURSIVE scanPluralBlocks(_, _, _, _)

\* lines 274-280: the block closed (depth 0) or the text ended first
scanClosedBlock(loc, result, params, i, value, formsStart, close) ==
  IF close.depth = 0
  THEN pushMatch(i, close.j,
                 parsePluralForms(loc, substring(result, formsStart, close.j - 2),
                                  value),
                 scanPluralBlocks(loc, result, params, close.j))
  ELSE scanPluralBlocks(loc, result, params, i + 1)

\* lines 252-272: "{{" stands at i and varMatch is the result of the exec
scanVarMatch(loc, result, params, i, varMatch) ==
  IF varMatch.matched /\ Lookup(params, varMatch.varName).t = "number"
  THEN scanClosedBlock(loc, result, params, i,
                       Lookup(params, varMatch.varName).n,
                       i + 2 + varMatch.len,
                       findClose(result, i + 2 + varMatch.len, 2))
  ELSE scanPluralBlocks(loc, result, params, i + 1)

\* the outer while loop of the first pass: the list pluralMatches, or the
\* exception parsePluralForms raised
scanPluralBlocks(loc, result, params, i) ==
  IF i >= Len(result) THEN NoMatches
  ELSE IF substring(result, i, i + 2) = "{{"
  THEN scanVarMatch(loc, result, params, i,
                    execVarMatch(substringFrom(result, i + 2)))
  ELSE scanPluralBlocks(loc, result, params, i + 1)

\* the replacements applied in reverse order
RECURSIVE applyPluralMatches(_, _, _)
applyPluralMatches(result, pluralMatches, idx) ==
  IF idx < 1 THEN result
  ELSE applyPluralMatches(
         substring(result, 0, pluralMatches[idx].start)
           \o pluralMatches[idx].replacement
           \o substringFrom(result, pluralMatches[idx].end),
         pluralMatches, idx - 1)

applyScan(template, scan) ==
  IF scan.threw THEN Threw
  ELSE Ok(applyPluralMatches(template, scan.matches, Len(scan.matches)),
          scan.rules)

\* first pass
expandPluralBlocks(loc, template, params) ==
  applyScan(template, scanPluralBlocks(loc, template, params, 0))

NoAutoMatch == [matched |-> FALSE, word |-> "", countVar |-> "", end |-> 0]

\* (\w+)\}\} : the count name runs from e1 + 1 to e2
autoPluralMatchCount(s, p, e1, e2) ==
  IF e2 > e1 + 1 /\ substring(s, e2, e2 + 2) = "}}"
  THEN [matched |-> TRUE, word |-> substring(s, p + 2, e1),
        countVar |-> substring(s, e1 + 1, e2), end |-> e2 + 2]
  ELSE NoAutoMatch

\* ([^:}]+): : the word runs from p + 2 to e1
autoPluralMatchWord(s, p, e1) ==
  IF e1 > p + 2 /\ charAt(s, e1) = ":"
  THEN autoPluralMatchCount(s, p, e1, WordRunEnd(s, e1 + 1))
  ELSE NoAutoMatch

\* AUTO_PLURAL_REGEX matched at position p: /\{\{([^:}]+):(\w+)\}\}/
autoPluralMatch(s, p) ==
  IF substring(s, p, p + 2) = "{{"
  THEN autoPluralMatchWord(s, p, NotColonBraceRunEnd(s, p + 2))
  ELSE NoAutoMatch

\* the callback with the test on the category inverted
autoPluralFormInverted(loc, word, pluralForm) ==
  IF pluralForm.threw THEN Threw
  ELSE Ok(IF pluralForm.val = "one" THEN pluralizeWord(loc, word) ELSE word, TRUE)

\* lines 301-302
autoPluralForm(loc, word, pluralForm) ==
  IF pluralForm.threw THEN Threw
  ELSE Ok(IF pluralForm.val = "one" THEN word ELSE pluralizeWord(loc, word), TRUE)

\* the callback of the second pass
autoPluralReplacement(loc, word, countVar, params) ==
  IF Lookup(params, countVar).t # "number" THEN Ok(word, FALSE)
  ELSE autoPluralForm(loc, word, getPluralForm(loc, Lookup(params, countVar).n))

\* a replaced or copied piece followed by the rest of the output
joinResults(r, rest) ==
  IF r.threw \/ rest.threw THEN Threw
  ELSE Ok(r.val \o rest.val, r.rules \/ rest.rules)

RECURSIVE replaceAutoPlural(_, _, _, _)

replaceAutoPluralAt(loc, s, params, p, m) ==
  IF m.matched
  THEN joinResults(autoPluralReplacement(loc, m.word, m.countVar, params),
                   replaceAutoPlural(loc, s, params, m.end))
  ELSE joinResults(Ok(substring(s, p, NextOpenBrace(s, p)), FALSE),
                   replaceAutoPlural(loc, s, params, NextOpenBrace(s, p)))

\* second pass: result.replace(AUTO_PLURAL_REGEX, callback) from position p
replaceAutoPlural(loc, s, params, p) ==
  IF p >= Len(s) THEN Ok("", FALSE)
  ELSE replaceAutoPluralAt(loc, s, params, p, autoPluralMatch(s, p))

NoSimpleMatch == [matched |-> FALSE, varName |-> "", end |-> 0]

simpleVarMatchName(s, p, e) ==
  IF e > p + 2 /\ substring(s, e, e + 2) = "}}"
  THEN [matched |-> TRUE, varName |-> substring(s, p + 2, e), end |-> e + 2]
  ELSE NoSimpleMatch

\* SIMPLE_VAR_REGEX matched at position p: /\{\{(\w+)\}\}/
simpleVarMatch(s, p) ==
  IF substring(s, p, p + 2) = "{{"
  THEN simpleVarMatchName(s, p, WordRunEnd(s, p + 2))
  ELSE NoSimpleMatch

\* value != null ? String(value) : match
simpleVarReplacement(value, match) ==
  IF value.t # "undefined" THEN ToStr(value) ELSE match

RECURSIVE replaceSimpleVars(_, _, _)

replaceSimpleVarsAt(s, params, p, m) ==
  IF m.matched
  THEN simpleVarReplacement(Lookup(params, m.varName), substring(s, p, m.end))
         \o replaceSimpleVars(s, params, m.end)
  ELSE substring(s, p, NextOpenBrace(s, p))
         \o replaceSimpleVars(s, params, NextOpenBrace(s, p))

\* third pass: result.replace(SIMPLE_VAR_REGEX, callback) from position p
replaceSimpleVars(s, params, p) ==
  IF p >= Len(s) THEN ""
  ELSE replaceSimpleVarsAt(s, params, p, simpleVarMatch(s, p))

\* the third pass on the output of the second
thirdPass(params, rules1, pass2) ==
  IF pass2.threw THEN Threw
  ELSE Ok(replaceSimpleVars(pass2.val, params, 0), rules1 \/ pass2.rules)

\* the second and third passes on the output of the first
secondPass(loc, params, pass1) ==
  IF pass1.threw THEN Threw
  ELSE thirdPass(params, pass1.rules, replaceAutoPlural(loc, pass1.val, params, 0))

\* the plain variables substituted before the words are pluralized
thirdPassOnFirst(loc, params, pass1) ==
  IF pass1.threw THEN Threw
  ELSE joinResults(Ok("", pass1.rules),
         replaceAutoPlural(loc, replaceSimpleVars(pass1.val, params, 0), params, 0))

\* interpolateNamed with its second and third passes in the other order
interpolateNamedVarsFirst(loc, template, params) ==
  thirdPassOnFirst(loc, params, expandPluralBlocks(loc, template, params))

interpolateNamed(loc, template, params) ==
  secondPass(loc, params, expandPluralBlocks(loc, template, params))

(* ------------------------------------------------------------------ *)
(* get                                                                  *)
(* ------------------------------------------------------------------ *)

NoPositionalMatch == [matched |-> FALSE, index |-> 0, end |-> 0]

positionalMatchIndex(s, p, e) ==
  IF e > p + 2 /\ substring(s, e, e + 2) = "}}"
  THEN [matched |-> TRUE, index |-> ToNumber(substring(s, p + 2, e)),
        end |-> e + 2]
  ELSE NoPositionalMatch

\* POSITIONAL_PARAM_REGEX matched at position p: /\{\{(\d+)\}\}/
positionalMatch(s, p) ==
  IF substring(s, p, p + 2) = "{{"
  THEN positionalMatchIndex(s, p, DigitRunEnd(s, p + 2))
  ELSE NoPositionalMatch

\* the callback reading the argument list from 1
positionalReplacementOneBased(params, index) ==
  IF ArrayAt(params, index - 1).t # "undefined"
  THEN ToStr(ArrayAt(params, index - 1)) ELSE ""

\* param != null ? String(param) : ''
positionalReplacement(params, index) ==
  IF ArrayAt(params, index).t # "undefined" THEN ToStr(ArrayAt(params, index)) ELSE ""

RECURSIVE replacePositional(_, _, _)

replacePositionalAt(s, params, p, m) ==
  IF m.matched
  THEN positionalReplacement(params, m.index) \o replacePositional(s, params, m.end)
  ELSE substring(s, p, NextOpenBrace(s, p))
         \o replacePositional(s, params, NextOpenBrace(s, p))

\* template.replace(POSITIONAL_PARAM_REGEX, callback) from position p
replacePositional(s, params, p) ==
  IF p >= Len(s) THEN ""
  ELSE replacePositionalAt(s, params, p, positionalMatch(s, p))

\* params.length === 1 && typeof params[0] === 'object' && !Array.isArray(params[0])
isNamedParams(params) == Len(params) = 1 /\ params[1].t = "object"

\* what get returns: val, whether pluralRulesCache gained the locale (rules),
\* and the interpolation that ran (passes: "none", "named" or "positional")
Returned(val, rules, passes) == [val |-> val, rules |-> rules, passes |-> passes]

\* the try/catch around interpolateNamed
namedOrError(r) ==
  IF r.threw THEN Returned(ERROR_VALUE, FALSE, "named")
  ELSE Returned(r.val, r.rules, "named")

\* lines 213-229: the template is a string
render(loc, template, params) ==
  IF Len(params) = 0 THEN Returned(template, FALSE, "none")
  ELSE IF isNamedParams(params)
  THEN namedOrError(interpolateNamed(loc, template, params[1].m))
  ELSE Returned(replacePositional(template, params, 0), FALSE, "positional")

\* get without the typeof test on the template: a missing key reaches the
\* interpolation and fails there
getNoLookupCheck(strs, loc, key, params) ==
  IF key \notin DOMAIN strs
  THEN IF Len(params) = 0 THEN Returned("undefined", FALSE, "none")
       ELSE Returned(ERROR_VALUE, FALSE,
                     IF isNamedParams(params) THEN "named" ELSE "positional")
  ELSE render(loc, strs[key], params)

\* get(key, ...params) on an instance holding strings and _locale = loc
get(strs, loc, key, params) ==
  IF key \notin DOMAIN strs THEN Returned(NOT_FOUND_VALUE, FALSE, "none")
  ELSE render(loc, strs[key], params)

(* ------------------------------------------------------------------ *)
(* The world around the class: elements, registered paths, the server   *)
(* ------------------------------------------------------------------ *)

\* bound on the number of load calls in one behaviour
MaxCalls == 2

Instances == {1, 2, 3}

\* element.tagName.toLowerCase() of each instance's element
ComponentName(i) == IF i = 3 THEN "my-b" ELSE "my-a"

\* the lang of the closest [lang] ancestor of each instance's element;
\* "" when there is none
ClosestLang(i) == IF i = 2 THEN "fr" ELSE ""

\* the namespace given to the constructor; "" when none was given
Namespace(i) == IF i = 3 THEN "my-lib" ELSE ""

\* the namespaces and paths the application registers
Namespaces == {"my-lib"}

DEFAULT_PATH == "../build/json"

Urls == {"https://a/i18n/", "https://b/i18n"}

LoadLocales == {"en", "fr"}

\* the JSON documents the server holds, by request URL: each a LocaleData
\* object, namespace -> key -> template

Server(request) ==
  CASE request = "https://a/i18n/en.json" ->
         ([n \in {"common", "my-a", "my-b"} |->
           CASE n = "common" ->
                  [k \in {"cancel", "save"} |->
                     IF k = "cancel" THEN "Cancel" ELSE "Save"]
             [] n = "my-a" ->
                  [k \in {"save", "title", "items"} |->
                     CASE k = "save" -> "Save A"
                       [] k = "title" -> "Title A"
                       [] k = "items" -> "{{n}} {{bal:n}}"]
             [] n = "my-b" ->
                  [k \in {"title"} |-> "Title B"]])
    [] request = "https://a/i18n/fr.json" ->
         ([n \in {"common", "my-a"} |->
           CASE n = "common" ->
                  [k \in {"cancel", "save"} |->
                     IF k = "cancel" THEN "Annuler" ELSE "Enregistrer"]
             [] n = "my-a" ->
                  [k \in {"save", "items"} |->
                     CASE k = "save" -> "Enregistrer A"
                       [] k = "items" -> "{{n}} {{bal:n}}"]])
    [] request = "https://b/i18n/en.json" ->
         ([n \in {"my-a"} |-> [k \in {"title"} |-> "Title A2"]])
    [] OTHER -> <<>>

\* the failures a fetch can answer with: status and statusText
Statuses == {404, 500}

StatusText(status) == IF status = 404 THEN "Not Found" ELSE "Internal Server Error"

(* ------------------------------------------------------------------ *)
(* State                                                                *)
(* ------------------------------------------------------------------ *)

VARIABLES
  locales,           \* I18n.locales: locale -> LocaleData
  componentCache,    \* I18n.componentCache: "locale:component" -> merged strings
  pluralRulesCache,  \* I18n.pluralRulesCache: the locales that hold a PluralRules
  strings,           \* this.strings of each instance
  locale,            \* this._locale of each instance
  calls,             \* the load calls made so far, each with its position
  out,               \* the last call of get and what it returned
  parts,             \* the directives the template under study was written from
  run,               \* the position of a get call followed loop by loop
  registeredPaths    \* I18n.registeredPaths: namespace -> base URL

vars ==
  <<locales, componentCache, pluralRulesCache, strings, locale, calls, out, parts,
    run, registeredPaths>>

NoGet == [inst |-> 0, key |-> "", params |-> <<>>, val |-> "", passes |-> "none"]

\* no get call is being followed
NoRun ==
  [phase |-> "idle", args |-> <<>>, result |-> "", i |-> 0, matches |-> <<>>,
   rules |-> FALSE, formsStr |-> "", fi |-> 0, forms |-> <<>>,
   exactMatches |-> <<>>, value |-> 0, formsStart |-> 0, j |-> 0, depth |-> 0,
   direct |-> FALSE, returned |-> "", p |-> 0, output |-> ""]

(* ------------------------------------------------------------------ *)
(* load and fetchLocaleStrings                                          *)
(* ------------------------------------------------------------------ *)

\* `${locale}:${componentName}`
cacheKey(loc, componentName) == loc \o ":" \o componentName

\* `${url}${url.endsWith('/') ? '' : '/'}${locale}.json`
requestUrl(url, loc) ==
  url \o (IF charAt(url, Len(url) - 1) = "/" THEN "" ELSE "/") \o loc \o ".json"

\* url || (this.namespace && I18n.registeredPaths.get(this.namespace)) || DEFAULT_PATH
effectivePath(i, url) ==
  IF url # "" THEN url
  ELSE IF Namespace(i) # "" /\ Namespace(i) \in DOMAIN registeredPaths
          /\ registeredPaths[Namespace(i)] # ""
  THEN registeredPaths[Namespace(i)]
  ELSE DEFAULT_PATH

detectLanguageFromDOM(i) == IF ClosestLang(i) # "" THEN ClosestLang(i) ELSE DEFAULT_LANG

\* locale || I18n.detectLanguageFromDOM(this.element)
effectiveLocale(i, localeArg) ==
  IF localeArg # "" THEN localeArg ELSE detectLanguageFromDOM(i)

\* the value JSON.parse gives for the body "null", as stored in I18n.locales
JsonNull == [null |-> "null"]

\* localeData.x || {}
Namespaced(localeData, name) ==
  IF name \in DOMAIN localeData THEN localeData[name] ELSE <<>>

\* { ...component, ...common }: the spread in the other order
mergeCommonWins(common, component) ==
  [k \in DOMAIN common \cup DOMAIN component |->
     IF k \in DOMAIN common THEN common[k] ELSE component[k]]

\* { ...common, ...component }
merge(common, component) ==
  [k \in DOMAIN common \cup DOMAIN component |->
     IF k \in DOMAIN component THEN component[k] ELSE common[k]]

\* lines 135-139: the merged strings of a stored payload
mergedStrings(localeData, componentName) ==
  merge(Namespaced(localeData, "common"), Namespaced(localeData, componentName))

\* fetching whether or not the payload is already stored
needsFetchAlways(locs, loc) == TRUE

\* !I18n.locales.has(locale)
needsFetch(locs, loc) == loc \notin DOMAIN locs

\* I18n.registerPath(namespace, path): lines 52-54
RegisterPath(namespace, path) ==
  /\ registeredPaths' = Put(registeredPaths, namespace, path)
  /\ out' = NoGet
  /\ UNCHANGED <<locales, componentCache, pluralRulesCache, strings, locale, calls,
                 parts, run>>

\* I18n.createFactory(namespace, path): lines 79-82.  The factory it returns
\* builds instances of that namespace, here instance 3.
CreateFactory(namespace, path) ==
  /\ RegisterPath(namespace, path)

\* One load call.  stage is its position: "fetch" (awaiting the response),
\* "json" (awaiting the body), "resolved" (fetchLocaleStrings returned, load
\* not yet resumed), "done", or "rejected".  fetched, overlap, quiet, loaded,
\* prevLocale and prevStrings record what held when the call was made.
Call(i, url, loc, stage, value, fetched) ==
  [inst |-> i, url |-> url, locale |-> loc, stage |-> stage, value |-> value,
   fetched |-> fetched, error |-> "",
   overlap |-> \E c \in 1..Len(calls) :
                 calls[c].locale = loc /\ calls[c].stage \in {"fetch", "json"},
   quiet |-> \A c \in 1..Len(calls) :
               calls[c].inst = i => calls[c].stage \in {"done", "rejected"},
   loaded |-> \E c \in 1..Len(calls) : calls[c].inst = i /\ calls[c].stage = "done",
   prevLocale |-> locale[i], prevStrings |-> strings[i]]

\* a call that failed with error
Failed(call, error) == [call EXCEPT !.error = error]

\* The synchronous part of load(url, locale): up to the first await.  A
\* payload null stored for the locale makes localeData.common raise (line
\* 137) and the call is rejected before any await.
LoadCall(i, url, localeArg) ==
  LET path == effectivePath(i, url)
      loc  == effectiveLocale(i, localeArg)
      key  == cacheKey(loc, ComponentName(i))
  IN  /\ Len(calls) < MaxCalls
      /\ locale' = [locale EXCEPT ![i] = loc]
      /\ IF key \in DOMAIN componentCache
         THEN /\ calls' = Append(calls, Call(i, path, loc, "resolved",
                                            componentCache[key], FALSE))
              /\ UNCHANGED <<locales, componentCache>>
         ELSE IF needsFetch(locales, loc)
         THEN /\ calls' = Append(calls, Call(i, path, loc, "fetch", <<>>, TRUE))
              /\ UNCHANGED <<locales, componentCache>>
         ELSE IF locales[loc] = JsonNull
         THEN /\ calls' = Append(calls, Failed(Call(i, path, loc, "rejected", <<>>,
                                                    FALSE), "TypeError"))
              /\ UNCHANGED <<locales, componentCache>>
         ELSE LET merged == mergedStrings(locales[loc], ComponentName(i))
              IN  /\ componentCache' = Put(componentCache, key, merged)
                  /\ calls' = Append(calls, Call(i, path, loc, "resolved", merged,
                                                FALSE))
                  /\ UNCHANGED locales
      /\ UNCHANGED <<pluralRulesCache, strings>>
      /\ out' = NoGet
      /\ UNCHANGED <<parts, run, registeredPaths>>

\* `Failed to load locale '${locale}': ${response.status} ${response.statusText}`
loadErrorMessage(loc, status, statusText) ==
  "Failed to load locale '" \o loc \o "': " \o NumberToString(status) \o " "
    \o statusText

\* The fetch of call c answers; status 200 stands for response.ok.
FetchSettle(c, status) ==
  /\ c \in 1..Len(calls)
  /\ calls[c].stage = "fetch"
  /\ IF status = 200
     THEN calls' = [calls EXCEPT ![c].stage = "json"]
     ELSE calls' = [calls EXCEPT ![c].stage = "rejected",
                                 ![c].error = loadErrorMessage(calls[c].locale, status,
                                                               StatusText(status))]
  /\ UNCHANGED <<locales, componentCache, pluralRulesCache, strings, locale>>
  /\ out' = NoGet
  /\ UNCHANGED <<parts, run, registeredPaths>>

\* what the body of a response can be: the JSON document of a LocaleData
\* object, the JSON text null, or text that is no JSON
Bodies == {"document", "null", "malformed"}

\* response.json() of call c settles.  Text that is no JSON rejects; the
\* parsed value is stored (line 132); null then makes localeData.common
\* raise (line 137); a document is merged and cached and the function runs
\* on to its return.
JsonSettle(c, body) ==
  /\ c \in 1..Len(calls)
  /\ calls[c].stage = "json"
  /\ LET loc  == calls[c].locale
         comp == ComponentName(calls[c].inst)
         data == Server(requestUrl(calls[c].url, loc))
     IN  IF body = "malformed"
         THEN /\ calls' = [calls EXCEPT ![c].stage = "rejected",
                                        ![c].error = "SyntaxError"]
              /\ UNCHANGED <<locales, componentCache>>
         ELSE IF body = "null"
         THEN /\ locales' = Put(locales, loc, JsonNull)
              /\ calls' = [calls EXCEPT ![c].stage = "rejected",
                                        ![c].error = "TypeError"]
              /\ UNCHANGED componentCache
         ELSE /\ locales' = Put(locales, loc, data)
              /\ LET merged == mergedStrings(data, comp)
                 IN  /\ componentCache' =
                          Put(componentCache, cacheKey(loc, comp), merged)
                     /\ calls' = [calls EXCEPT ![c].stage = "resolved",
                                               ![c].value = merged]
  /\ UNCHANGED <<pluralRulesCache, strings, locale>>
  /\ out' = NoGet
  /\ UNCHANGED <<parts, run, registeredPaths>>

\* load resumes after its await: this.strings = <the resolved value>
LoadResume(c) ==
  /\ c \in 1..Len(calls)
  /\ calls[c].stage = "resolved"
  /\ strings' = [strings EXCEPT ![calls[c].inst] = calls[c].value]
  /\ calls' = [calls EXCEPT ![c].stage = "done"]
  /\ UNCHANGED <<locales, componentCache, pluralRulesCache, locale>>
  /\ out' = NoGet
  /\ UNCHANGED <<parts, run, registeredPaths>>

(* ------------------------------------------------------------------ *)
(* get on an instance                                                   *)
(* ------------------------------------------------------------------ *)

\* the state after get returned r
GetReturn(i, key, params, r) ==
  /\ out' = [inst |-> i, key |-> key, params |-> params, val |-> r.val,
             passes |-> r.passes]
  /\ pluralRulesCache' =
       IF r.rules THEN pluralRulesCache \cup {locale[i]} ELSE pluralRulesCache
  /\ UNCHANGED <<locales, componentCache, strings, locale, calls, parts,
                 registeredPaths>>

Get(i, key, params) ==
  /\ GetReturn(i, key, params, get(strings[i], locale[i], key, params))
  /\ UNCHANGED run

(* ------------------------------------------------------------------ *)
(* The application: instances loading and looking up                    *)
(* ------------------------------------------------------------------ *)

\* the load calls the application makes: instance, url, locale ("" for an
\* argument left out)
LoadArgs ==
  { <<1, "https://a/i18n/", "en">>, <<1, "https://a/i18n/", "fr">>,
    <<2, "https://a/i18n/", "">>,
    <<3, "", "en">> }

NamedN(n) == <<Obj([k \in {"n"} |-> Num(n)])>>

\* the get calls the application makes: instance, key, arguments
GetArgs ==
  { <<1, "save", <<>>>>, <<1, "items", NamedN(2)>>,
    <<2, "missing", NamedN(2)>>, <<3, "missing", <<Str("x"), Num(1)>>>> }

Init ==
  /\ locales = <<>>
  /\ componentCache = <<>>
  /\ pluralRulesCache = {}
  /\ strings = [i \in Instances |-> <<>>]
  /\ locale = [i \in Instances |-> ""]
  /\ calls = <<>>
  /\ out = NoGet
  /\ parts = <<>>
  /\ run = NoRun
  /\ registeredPaths = <<>>

Next ==
  \/ \E namespace \in Namespaces, path \in Urls : RegisterPath(namespace, path)
  \/ \E namespace \in Namespaces, path \in Urls : CreateFactory(namespace, path)
  \/ \E a \in LoadArgs : LoadCall(a[1], a[2], a[3])
  \/ \E c \in 1..MaxCalls, status \in {200} \cup Statuses : FetchSettle(c, status)
  \/ \E c \in 1..MaxCalls, body \in Bodies : JsonSettle(c, body)
  \/ \E c \in 1..MaxCalls : LoadResume(c)
  \/ \E g \in GetArgs : Get(g[1], g[2], g[3])

Spec == Init /\ [][Next]_vars

(* ------------------------------------------------------------------ *)
(* Templates written from directives, and get on them                   *)
(* ------------------------------------------------------------------ *)

\* largest count of the small range of counts passed to get
MaxCount == 3

Counts == (-1..MaxCount) \cup {11, 100, 1000000}

\* The pieces a template is written from.  lit is text free of braces and
\* colons, raw is text holding an unclosed "{{", pos is {{<digits>}}, var is
\* {{name}}, auto is {{word:name}} and plural is
\* {{name, plural, <key> {<pieces>} ... }} with sep the whitespace used.
Piece(kind, text, name, sep, entries) ==
  [kind |-> kind, text |-> text, name |-> name, sep |-> sep, entries |-> entries]

Lit(text) == Piece("lit", text, "", "", <<>>)

Raw(text) == Piece("raw", text, "", "", <<>>)

Pos(digits) == Piece("pos", "", digits, "", <<>>)

Var(name) == Piece("var", "", name, "", <<>>)

Auto(word, name) == Piece("auto", word, name, "", <<>>)

Plural(name, sep, entries) == Piece("plural", "", name, sep, entries)

Entry(key, body) == [key |-> key, body |-> body]

ItemsBlock ==
  Plural("n", " ", << Entry("=0", <<Lit("no")>>), Entry("one", <<Lit("a")>>),
                      Entry("other", <<Var("n"), Lit(" "), Auto("bal", "n")>>) >>)

ExactAndOneBlock ==
  Plural("n", "", << Entry("=1", <<Lit("u")>>), Entry("one", <<Lit("e")>>),
                     Entry("few", <<Lit("f")>>), Entry("other", <<Lit("o")>>) >>)

NoOtherBlock ==
  Plural("n", " ", << Entry("one", <<Lit("a")>>), Entry("two", <<Lit("b")>>) >>)

TextCountBlock ==
  Plural("who", " ", << Entry("one", <<Lit("a")>>), Entry("other", <<Lit("b")>>) >>)

CategoriesBlock ==
  Plural("n", " ", << Entry("zero", <<Lit("z")>>), Entry("=2", <<Var("who")>>),
                      Entry("many", <<Lit("m")>>), Entry("other", <<Pos("0")>>) >>)

Blocks ==
  {ItemsBlock, ExactAndOneBlock, NoOtherBlock, TextCountBlock, CategoriesBlock}

Directives ==
  { Pos("0"), Pos("1"), Pos("2"), Pos("01"), Var("n"), Var("who"), Var("x"),
    Var("constructor"),
    Auto("box", "n"), Auto("bal", "n"), Auto("city", "who"), Auto("day", "x"),
    Auto("le jeu", "n") }

Texts == { Lit("Hi "), Lit(" x.") }

Unclosed == { Raw("{{bad"), Raw("{{n, plural, one {a}") }

Fragments == Texts \cup Directives \cup Blocks \cup Unclosed

\* the templates under study: one fragment, or a fragment after another
RenderInputs ==
  {<<f>> : f \in Fragments}
    \cup {<<f, g>> : f \in Fragments, g \in Texts \cup Directives \cup Unclosed}
    \cup {<<f, g>> : f \in Texts \cup Directives, g \in Blocks}

RenderLocales == {"en", "fr", "ar", "en_US"}

NamedArgs(m) == <<Obj(m)>>

\* the arguments of get under study
RenderParams ==
  { <<>>, <<Str("Bob")>>, <<Num(42), Str("Bob")>>,
    NamedArgs(<<>>),
    NamedArgs([k \in {"n", "who"} |-> IF k = "n" THEN Str("two") ELSE Str("Bob")]),
    NamedArgs([k \in {"n", "who"} |->
                 IF k = "n" THEN Num(2) ELSE Str("{{bal:n}}")]) }
    \cup { NamedArgs([k \in {"n", "who"} |-> IF k = "n" THEN Num(c) ELSE Str("Bob")])
             : c \in Counts }

RECURSIVE Emit(_, _, _, _)
RECURSIVE EmitEntries(_, _, _, _, _)

EntryKeys(es) == {es[k].key : k \in DOMAIN es}

BodyOf(es, key) == es[CHOOSE k \in DOMAIN es : es[k].key = key].body

\* the body a block offers for the number n of category cat
Selected(es, n, cat) ==
  IF ("=" \o NumberToString(n)) \in EntryKeys(es)
  THEN BodyOf(es, "=" \o NumberToString(n))
  ELSE IF cat \in EntryKeys(es) THEN BodyOf(es, cat)
  ELSE IF "other" \in EntryKeys(es) THEN BodyOf(es, "other")
  ELSE <<>>

NamedValue(args, name) == Lookup(args[1].m, name)

\* the text of {{<digits>}} called with a list of arguments
PosText(args, digits) ==
  IF ToNumber(digits) + 1 \in DOMAIN args THEN ToStr(args[ToNumber(digits) + 1])
  ELSE ""

\* the text of {{name}} called with named arguments
VarText(args, name) ==
  IF NamedValue(args, name).t = "undefined" THEN "{{" \o name \o "}}"
  ELSE ToStr(NamedValue(args, name))

\* the text of {{word:name}} called with named arguments
AutoText(loc, args, word, name) ==
  IF NamedValue(args, name).t # "number" THEN word
  ELSE IF PluralRulesSelect(loc, NamedValue(args, name).n) = "one" THEN word
  ELSE pluralizeWord(loc, word)

\* The text of one piece.  mode "print" writes the template, "pos" writes
\* what a positional call shows and "named" what a named call shows.
EmitPiece(mode, loc, args, p) ==
  CASE p.kind = "pos" ->
         IF mode = "pos" THEN PosText(args, p.name)
         ELSE IF mode = "named" THEN VarText(args, p.name)
         ELSE "{{" \o p.name \o "}}"
    [] p.kind = "var" ->
         IF mode = "named" THEN VarText(args, p.name) ELSE "{{" \o p.name \o "}}"
    [] p.kind = "auto" ->
         IF mode = "named" THEN AutoText(loc, args, p.text, p.name)
         ELSE "{{" \o p.text \o ":" \o p.name \o "}}"
    [] p.kind = "plural" ->
         IF mode = "named" /\ NamedValue(args, p.name).t = "number"
         THEN Emit(mode, loc, args,
                   Selected(p.entries, NamedValue(args, p.name).n,
                            PluralRulesSelect(loc, NamedValue(args, p.name).n)))
         ELSE "{{" \o p.name \o "," \o p.sep \o "plural," \o p.sep
                \o EmitEntries(mode, loc, args, p.entries, p.sep) \o "}}"
    [] OTHER -> p.text

Emit(mode, loc, args, ps) ==
  IF ps = <<>> THEN ""
  ELSE EmitPiece(mode, loc, args, Head(ps)) \o Emit(mode, loc, args, Tail(ps))

EmitEntries(mode, loc, args, es, sep) ==
  IF es = <<>> THEN ""
  ELSE Head(es).key \o sep \o "{" \o Emit(mode, loc, args, Head(es).body) \o "}"
         \o sep \o EmitEntries(mode, loc, args, Tail(es), sep)

\* the template a sequence of pieces stands for
TemplateOf(ps) == Emit("print", "", <<>>, ps)

\* the forms string of a block: from after "plural," to before the closing }}
FormsOf(p) == EmitEntries("print", "", <<>>, p.entries, p.sep)

\* the payload served for the page under study: one template under key "t"
RenderPayload(template) ==
  [ns \in {"my-a"} |-> [k \in {"t"} |-> template]]

\* Instance 1 has loaded, from https://t/i18n/, a locale whose payload holds
\* one template under key "t"; nothing has been looked up yet.
RenderLoaded(ps, loc) ==
  /\ parts = ps
  /\ locales = [l \in {loc} |-> RenderPayload(TemplateOf(ps))]
  /\ componentCache =
       [k \in {cacheKey(loc, ComponentName(1))} |->
          mergedStrings(RenderPayload(TemplateOf(ps)), ComponentName(1))]
  /\ pluralRulesCache = {}
  /\ strings = [i \in Instances |->
                  IF i = 1
                  THEN mergedStrings(RenderPayload(TemplateOf(ps)), ComponentName(1))
                  ELSE <<>>]
  /\ locale = [i \in Instances |-> IF i = 1 THEN loc ELSE ""]
  /\ calls = << [inst |-> 1, url |-> "https://t/i18n/", locale |-> loc,
                 stage |-> "done",
                 value |-> mergedStrings(RenderPayload(TemplateOf(ps)),
                                         ComponentName(1)),
                 fetched |-> TRUE, error |-> "", overlap |-> FALSE,
                 quiet |-> TRUE, loaded |-> FALSE, prevLocale |-> "",
                 prevStrings |-> <<>>] >>
  /\ out = NoGet
  /\ run = NoRun
  /\ registeredPaths = <<>>

RenderInit == \E ps \in RenderInputs, loc \in RenderLocales : RenderLoaded(ps, loc)

\* one call of get("t", ...) on the loaded instance
RenderNext == \E params \in RenderParams : out = NoGet /\ Get(1, "t", params)

SpecRender == RenderInit /\ [][RenderNext]_vars

(* ------------------------------------------------------------------ *)
(* Properties of loading and caching                                    *)
(* ------------------------------------------------------------------ *)

CallIds == 1..Len(calls)

\* the load calls made so far for a base URL and a locale
CallsFor(u, l) == {c \in CallIds : calls[c].url = u /\ calls[c].locale = l}

\* the fetches those calls issued
FetchCount(u, l) == Cardinality({c \in CallsFor(u, l) : calls[c].fetched})

Keys == {"save", "cancel", "title", "items", "missing"}

\* every base URL a load call of the application can resolve to
Paths == Urls \cup {DEFAULT_PATH}

\* C1 as stated: when every load call for a base URL and a locale has
\* completed, overlapping ones included, those calls issued at most one fetch
\* for the locale.
C1_OneFetchEvenOverlapping ==
  \A u \in Paths, l \in LoadLocales :
    (\A c \in CallsFor(u, l) : calls[c].stage = "done")
      => FetchCount(u, l) <= 1

\* C1 amended: when no load call for a base URL and a locale has failed and
\* none of them was made while a fetch for that locale was in flight, those
\* calls issued at most one fetch for the locale, whatever their instances
\* and components.
C1_OneFetchUnlessOverlapping ==
  \A u \in Paths, l \in LoadLocales :
    (\A c \in CallsFor(u, l) : calls[c].stage # "rejected" /\ ~calls[c].overlap)
      => FetchCount(u, l) <= 1

\* two completed loads of one base URL and locale by different instances,
\* the second made after the first fetch had answered: one fetch
C1_Witness ==
  \E c, d \in CallIds :
    /\ c < d
    /\ calls[c].url = calls[d].url
    /\ calls[c].locale = calls[d].locale
    /\ calls[c].inst # calls[d].inst
    /\ calls[c].stage = "done" /\ calls[d].stage = "done"
    /\ calls[c].fetched /\ ~calls[d].overlap
    /\ FetchCount(calls[c].url, calls[c].locale) = 1

\* what get(key) must return on strs for a payload and a component
Precedence(strs, doc, componentName) ==
  \A key \in Keys :
    LET common    == Namespaced(doc, "common")
        component == Namespaced(doc, componentName)
        got       == get(strs, "", key, <<>>).val
    IN  /\ key \in DOMAIN component => got = component[key]
        /\ key \in DOMAIN common /\ key \notin DOMAIN component => got = common[key]

\* C2: an instance that has completed a load holds the strings of one of its
\* completed loads, and get on them returns the component's template for a
\* key of both namespaces and the only template for a key of one namespace,
\* for a payload served for that load's locale, the one whose two namespaces
\* hold exactly the keys of the strings.
C2_MergePrecedence ==
  \A i \in Instances :
    (\E c \in CallIds : calls[c].inst = i /\ calls[c].stage = "done")
      => \E c \in CallIds :
           /\ calls[c].inst = i /\ calls[c].stage = "done"
           /\ strings[i] = calls[c].value
           /\ \E path \in Paths :
                LET doc == Server(requestUrl(path, calls[c].locale))
                IN  /\ DOMAIN strings[i]
                         = DOMAIN Namespaced(doc, "common")
                             \cup DOMAIN Namespaced(doc, ComponentName(i))
                    /\ Precedence(strings[i], doc, ComponentName(i))

\* get("save") after instance 1 loaded a payload with save in both namespaces
C2_Witness ==
  /\ \E c \in CallIds : calls[c].inst = 1 /\ calls[c].stage = "done"
  /\ out.inst = 1 /\ out.key = "save" /\ out.val = "Save A"

ArgShapes ==
  {<<>>, <<Str("x")>>, <<Str("x"), Num(1)>>, NamedN(2), <<Obj(<<>>)>>}

\* C3: in every state of every instance and for every shape of arguments, get
\* of a key absent from the instance's strings returns NOT_FOUND_VALUE and
\* runs no interpolation.
C3_NotFound ==
  /\ \A i \in Instances, key \in Keys, params \in ArgShapes :
       key \notin DOMAIN strings[i]
         => LET r == get(strings[i], locale[i], key, params)
            IN  r.val = NOT_FOUND_VALUE /\ r.passes = "none" /\ ~r.rules
  /\ (out.inst \in Instances /\ out.key \notin DOMAIN strings[out.inst])
       => out.val = NOT_FOUND_VALUE /\ out.passes = "none"

\* get of a missing key with named arguments after a failed load
C3_Witness ==
  /\ out.inst \in Instances
  /\ out.key = "missing" /\ isNamedParams(out.params)
  /\ out.val = NOT_FOUND_VALUE
  /\ \E c \in CallIds : calls[c].inst = out.inst /\ calls[c].stage = "rejected"

\* the messages of a load error for a locale
LoadErrorMessages(l) ==
  {"Failed to load locale '" \o l \o "': 404 Not Found",
   "Failed to load locale '" \o l \o "': 500 Internal Server Error"}

\* C4 as stated: the step in which a load fails on its response or on its
\* body carries an error and leaves locales and componentCache as they were,
\* the error of a non-success response names the locale, the status and the
\* status text, and a load of a locale absent from locales issues a fetch.
C4_FailedLoad ==
  [][/\ \A c \in CallIds :
          (calls[c].stage \in {"fetch", "json"} /\ calls'[c].stage = "rejected")
            => /\ locales' = locales
               /\ componentCache' = componentCache
               /\ calls[c].stage = "fetch"
                    => calls'[c].error \in LoadErrorMessages(calls[c].locale)
               /\ calls'[c].error # ""
     /\ Len(calls') = Len(calls) + 1
          => LET n == calls'[Len(calls')]
             IN  n.locale \notin DOMAIN locales => n.fetched /\ n.stage = "fetch"
    ]_vars

\* C5 as stated: after a failed reload of an instance that had loaded, with
\* no other load of that instance in flight or made since, strings and
\* _locale are what they were before the call.
C5_FailedReloadKeepsState ==
  \A c \in CallIds :
    ( /\ calls[c].stage = "rejected"
      /\ calls[c].loaded /\ calls[c].quiet
      /\ \A d \in CallIds : d > c => calls[d].inst # calls[c].inst )
      => /\ strings[calls[c].inst] = calls[c].prevStrings
         /\ locale[calls[c].inst] = calls[c].prevLocale

(* ------------------------------------------------------------------ *)
(* Properties of get on templates written from directives               *)
(* ------------------------------------------------------------------ *)

\* get("t", {...}) has returned on the loaded instance
NamedCall == out.inst = 1 /\ out.key = "t" /\ isNamedParams(out.params)

\* get("t", a, b, ...) has returned on the loaded instance
PositionalCall ==
  out.inst = 1 /\ out.key = "t" /\ Len(out.params) > 0 /\ ~isNamedParams(out.params)

NamedCount(c, who) ==
  NamedArgs([k \in {"n", "who"} |-> IF k = "n" THEN Num(c) ELSE Str(who)])

LitOnly(es) ==
  \A e \in DOMAIN es : \A b \in DOMAIN es[e].body : es[e].body[b].kind = "lit"

\* every "{{" of the template is closed, and a block left unexpanded for
\* want of a number holds text only
Directed(ps, args) ==
  \A k \in DOMAIN ps :
    /\ ps[k].kind # "raw"
    /\ ps[k].kind = "plural"
         => NamedValue(args, ps[k].name).t = "number" \/ LitOnly(ps[k].entries)

\* C6 as stated: a named-mode get of a present key returns ERROR_VALUE when
\* the template holds an unclosed "{{", and when the render needs the plural
\* category of a number for a locale whose resolver cannot be constructed.
C6_FaultsReturnError ==
  NamedCall =>
    /\ (\E k \in DOMAIN parts : parts[k].kind = "raw") => out.val = ERROR_VALUE
    /\ ( /\ locale[1] \notin PluralRulesLocales
         /\ \E k \in DOMAIN parts :
              /\ parts[k].kind = "auto"
              /\ NamedValue(out.params, parts[k].name).t = "number" )
         => out.val = ERROR_VALUE

\* C7: in named mode, for a locale with plural rules, get returns the
\* template with every block replaced by the body selected for its number,
\* the {{word:countVar}} and {{name}} directives of the template and of the
\* selected bodies replaced in turn, and argument text that itself holds a
\* directive left as inserted.
C7_NamedPassOrder ==
  (NamedCall /\ locale[1] \in PluralRulesLocales /\ Directed(parts, out.params))
    => out.val = Emit("named", locale[1], out.params, parts)

\* a block whose selected body holds {{n}} and {{bal:n}}, after a {{who}}
\* whose argument is the text of a directive
C7_Witness ==
  /\ NamedCall
  /\ locale[1] = "en"
  /\ parts = <<Var("who"), ItemsBlock>>
  /\ out.params = NamedCount(2, "{{bal:n}}")
  /\ out.val = "{{bal:n}}2 bals"

\* C8: for a block whose variable is a number n of the named arguments and a
\* locale with plural rules, parsePluralForms returns the content of the
\* entry =n if the block has one, whatever the category of n; else the
\* content of the entry of n's category; else the content of other; else
\* the empty string; and get of the block alone returns that content
\* rendered.
C8_PluralSelection ==
  (NamedCall /\ locale[1] \in PluralRulesLocales) =>
    \A k \in DOMAIN parts :
      (parts[k].kind = "plural" /\ NamedValue(out.params, parts[k].name).t = "number")
        => LET n      == NamedValue(out.params, parts[k].name).n
               exact  == "=" \o NumberToString(n)
               cat    == PluralRulesSelect(locale[1], n)
               keys   == EntryKeys(parts[k].entries)
               chosen == IF exact \in keys THEN BodyOf(parts[k].entries, exact)
                         ELSE IF cat \in keys THEN BodyOf(parts[k].entries, cat)
                         ELSE IF "other" \in keys
                         THEN BodyOf(parts[k].entries, "other")
                         ELSE <<>>
               r      == parsePluralForms(locale[1], FormsOf(parts[k]), n)
           IN  /\ ~r.threw
               /\ r.val = TemplateOf(chosen)
               /\ Len(parts) = 1
                    => out.val = Emit("named", locale[1], out.params, chosen)

\* a block with both =1 and one, called with 1 in a locale where 1 is "one"
C8_Witness ==
  /\ NamedCall
  /\ locale[1] = "en"
  /\ parts = <<ExactAndOneBlock>>
  /\ out.params = NamedCount(1, "Bob")
  /\ out.val = "u"

\* the text C9 gives for a piece of a template of text and {{word:countVar}}
AutoOrText(loc, m, p) ==
  IF p.kind = "lit" THEN p.text
  ELSE IF p.name \in DOMAIN m /\ m[p.name].t = "number"
  THEN IF PluralRulesSelect(loc, m[p.name].n) = "one" THEN p.text
       ELSE pluralizeWord(loc, p.text)
  ELSE p.text

\* C9: in named mode, for a locale with plural rules, a template of text and
\* {{word:countVar}} directives is returned with every directive replaced:
\* by word when countVar is a number of category one, by the plural of word
\* when it is a number of another category, and by word when countVar is
\* missing or not a number.
C9_AutoPlural ==
  ( /\ NamedCall
    /\ locale[1] \in PluralRulesLocales
    /\ \A k \in DOMAIN parts : parts[k].kind \in {"lit", "auto"} )
    => /\ Len(parts) = 1
            => out.val = AutoOrText(locale[1], out.params[1].m, parts[1])
       /\ Len(parts) = 2
            => out.val = AutoOrText(locale[1], out.params[1].m, parts[1])
                           \o AutoOrText(locale[1], out.params[1].m, parts[2])

\* {{bal:n}} with n = 2 and with n = 1 in French, and with n a text
C9_Witness ==
  /\ NamedCall
  /\ locale[1] = "fr"
  /\ parts = <<Auto("bal", "n"), Auto("city", "who")>>
  /\ out.params = NamedCount(2, "Bob")
  /\ out.val = "bauxcity"

\* C10: in positional mode get returns the template with every {{i}}, at
\* any depth, replaced by the text of argument i counted from 0, or by the
\* empty string when there is no argument i, and everything else as it was;
\* it does not return ERROR_VALUE.
C10_Positional ==
  PositionalCall
    => /\ out.val = Emit("pos", "", out.params, parts)
       /\ out.val # ERROR_VALUE
       /\ out.passes = "positional"

\* {{0}} within and {{2}} beyond a list of two arguments
C10_Witness ==
  /\ PositionalCall
  /\ parts = <<Pos("0"), Pos("2")>>
  /\ out.params = <<Num(42), Str("Bob")>>
  /\ out.val = "42"

(* ------------------------------------------------------------------ *)
(* The word pluralizer                                                  *)
(* ------------------------------------------------------------------ *)

Stems == {"", "d", "Ga"}

Endings ==
  { "s", "S", "sh", "Sh", "ch", "cH", "x", "X", "z", "Z", "h", "c",
    "y", "Y", "by", "BY", "bY", "ay", "Ay", "ey", "iy", "oy", "uY", "2y", " y",
    "au", "AU", "eau", "eu", "Eu", "al", "AL", "aL", "aux", "als", "a", "l", "u", "t" }

\* the words under study: a stem and an ending of interest to some rule
Words == {st \o e : st \in Stems, e \in Endings}

WordLocales == {"en", "fr", "de", "en-US"}

\* instance 1 has loaded a locale whose template under "t" is {{word:n}}
WordInit ==
  \E w \in Words, loc \in WordLocales : RenderLoaded(<<Auto(w, "n")>>, loc)

SpecWords == WordInit /\ [][RenderNext]_vars

Lower(c) ==
  IF c \in {"A", "B", "C", "E", "G", "H", "I", "L", "O", "S", "U", "X", "Y", "Z"}
  THEN [k \in {"A", "B", "C", "E", "G", "H", "I", "L", "O", "S", "U", "X", "Y", "Z"} |->
          CASE k = "A" -> "a" [] k = "B" -> "b" [] k = "C" -> "c" [] k = "E" -> "e"
            [] k = "G" -> "g" [] k = "H" -> "h" [] k = "I" -> "i" [] k = "L" -> "l"
            [] k = "O" -> "o" [] k = "S" -> "s" [] k = "U" -> "u" [] k = "X" -> "x"
            [] k = "Y" -> "y" [] k = "Z" -> "z"][c]
  ELSE c

\* the last k characters of a word in lower case, "" when the word is shorter
Tail1(word) == IF Len(word) >= 1 THEN Lower(SubSeq(word, Len(word), Len(word))) ELSE ""

Tail2(word) ==
  IF Len(word) >= 2
  THEN Lower(SubSeq(word, Len(word) - 1, Len(word) - 1)) \o Tail1(word)
  ELSE ""

Tail3(word) ==
  IF Len(word) >= 3
  THEN Lower(SubSeq(word, Len(word) - 2, Len(word) - 2)) \o Tail2(word)
  ELSE ""

\* the rule table: the first rule of the locale's row that applies
RuleTable(loc, word) ==
  CASE loc = "en" ->
         IF Tail1(word) \in {"s", "x", "z"} \/ Tail2(word) \in {"sh", "ch"}
         THEN word \o "es"
         ELSE IF /\ Tail1(word) = "y"
                 /\ Len(word) >= 2
                 /\ SubSeq(Tail2(word), 1, 1) \notin {"a", "e", "i", "o", "u"}
         THEN SubSeq(word, 1, Len(word) - 1) \o "ies"
         ELSE word \o "s"
    [] loc = "fr" ->
         IF Tail1(word) \in {"s", "x", "z"} THEN word
         ELSE IF Tail2(word) \in {"au", "eu"} \/ Tail3(word) = "eau" THEN word \o "x"
         ELSE IF Tail2(word) = "al" THEN SubSeq(word, 1, Len(word) - 2) \o "aux"
         ELSE word \o "s"
    [] OTHER -> word \o "s"

\* C11: for every word, pluralizeWord gives what the rule table gives for
\* the instance's locale, the suffixes compared without regard to case and
\* a consonant being any character other than a, e, i, o, u; and get of
\* {{word:n}} with a number n whose category is not one returns that plural.
C11_RuleTable ==
  (parts # <<>> /\ parts[1].kind = "auto" /\ locale[1] \in WordLocales) =>
    /\ pluralizeWord(locale[1], parts[1].text) = RuleTable(locale[1], parts[1].text)
    /\ ( /\ NamedCall
         /\ Len(parts) = 1
         /\ NamedValue(out.params, "n").t = "number"
         /\ PluralRulesSelect(locale[1], NamedValue(out.params, "n").n) # "one" )
         => out.val = RuleTable(locale[1], parts[1].text)

\* an upper-case -AL word in French, called with 2
C11_Witness ==
  /\ NamedCall
  /\ locale[1] = "fr"
  /\ parts = <<Auto("GaAL", "n")>>
  /\ out.params = NamedCount(2, "Bob")
  /\ out.val = "Gaaux"

(* ------------------------------------------------------------------ *)
(* The pair (strings, locale) of an instance                            *)
(* ------------------------------------------------------------------ *)

\* C12 as stated: in every state, whatever load calls are in flight, have
\* completed or have failed, the strings of an instance are the initial
\* empty map or the merged strings cached for its current locale and its
\* component.
C12_StringsOfCurrentLocale ==
  \A i \in Instances :
    \/ strings[i] = <<>>
    \/ /\ cacheKey(locale[i], ComponentName(i)) \in DOMAIN componentCache
       /\ strings[i] = componentCache[cacheKey(locale[i], ComponentName(i))]

(* ------------------------------------------------------------------ *)
(* The shared caches                                                    *)
(* ------------------------------------------------------------------ *)

\* C13: a load called when its locale's payload is stored issues no fetch
\* and settles at once, whatever its instance, component and base URL; and
\* a load called when its key locale:componentName is in componentCache
\* resolves at once with the mapping stored there, the caches untouched.
C13_NoFetchOnceStored ==
  [][Len(calls') = Len(calls) + 1
       => LET n   == calls'[Len(calls')]
              key == n.locale \o ":" \o ComponentName(n.inst)
          IN  /\ n.locale \in DOMAIN locales
                   => /\ ~n.fetched /\ n.stage \in {"resolved", "rejected"}
                      /\ locales' = locales
              /\ key \in DOMAIN componentCache
                   => /\ ~n.fetched /\ n.stage = "resolved"
                      /\ n.value = componentCache[key]
                      /\ locales' = locales /\ componentCache' = componentCache
    ]_vars

\* after instance 1 loaded en, instance 3 (another component, another base
\* URL) loaded en without a fetch
C13_Witness ==
  \E c, d \in CallIds :
    /\ c < d
    /\ calls[c].inst = 1 /\ calls[d].inst = 3
    /\ calls[c].locale = "en" /\ calls[d].locale = "en"
    /\ calls[c].url # calls[d].url
    /\ calls[c].fetched /\ ~calls[d].fetched
    /\ calls[d].stage = "done"
    /\ strings[3] = componentCache["en:my-b"]

\* C14 as stated: no step removes a key from locales, componentCache or
\* pluralRulesCache, and no step changes the value stored under a key of
\* locales or componentCache.
C14_AppendOnly ==
  [][/\ \A l \in DOMAIN locales : l \in DOMAIN locales' /\ locales'[l] = locales[l]
     /\ \A k \in DOMAIN componentCache :
          k \in DOMAIN componentCache' /\ componentCache'[k] = componentCache[k]
     /\ pluralRulesCache \subseteq pluralRulesCache'
    ]_vars

(* ------------------------------------------------------------------ *)
(* get in named mode followed loop by loop                              *)
(* ------------------------------------------------------------------ *)

\* templates whose blocks are well formed, unbalanced, or hold entries the
\* forms parser stops at
ScanTemplates ==
  { "a {{x}} {{n, plural, =1 {u} one {e} other {{{n}} o}}} b",
    "{{n, plural, one {a} }}{{n,plural,other{b}}}",
    "{{n, plural, one {a",
    "{{ {{n, plural, one {a}} }",
    "{{n, plural, = {e} other {o}}}",
    "{{n, plural, {anon} other {o}}}",
    "{{n, plural, one {a}}",
    "{{n, plural, one {a}} other {b}}}",
    "{{n, plural, one}}",
    "{{n, plural, - {x} other {o}}}",
    "{{n, plural, }}",
    "{{n, plural, other {a}}}}} {{n, plural, x",
    "{{box:n}} and {{n}} {{constructor}}" }

ScanLocales == {"en", "en_US"}

ScanParams ==
  { NamedArgs(<<>>), NamedArgs([k \in {"n"} |-> Str("two")]) }
    \cup { NamedArgs([k \in {"n"} |-> Num(c)]) : c \in 0..MaxCount }

\* instance 1 has loaded a locale whose payload holds one of the templates
ScanLoaded(template, loc) ==
  /\ parts = <<>>
  /\ locales = [l \in {loc} |-> RenderPayload(template)]
  /\ componentCache =
       [k \in {cacheKey(loc, ComponentName(1))} |->
          mergedStrings(RenderPayload(template), ComponentName(1))]
  /\ pluralRulesCache = {}
  /\ strings = [i \in Instances |->
                  IF i = 1 THEN mergedStrings(RenderPayload(template), ComponentName(1))
                  ELSE <<>>]
  /\ locale = [i \in Instances |-> IF i = 1 THEN loc ELSE ""]
  /\ calls = << [inst |-> 1, url |-> "https://t/i18n/", locale |-> loc,
                 stage |-> "done",
                 value |-> mergedStrings(RenderPayload(template), ComponentName(1)),
                 fetched |-> TRUE, error |-> "", overlap |-> FALSE,
                 quiet |-> TRUE, loaded |-> FALSE, prevLocale |-> "",
                 prevStrings |-> <<>>] >>
  /\ out = NoGet
  /\ run = NoRun
  /\ registeredPaths = <<>>

ScanInit == \E t \in ScanTemplates, loc \in ScanLocales : ScanLoaded(t, loc)

\* forms texts handed to the parser on their own, among them texts ending
\* inside a content block, which the scan never hands over
FormsTexts ==
  { "one {a", "one {a {b} c", "=1 {u} other {{{n}} o", "= {e} x {", "{anon} {",
    "one {a} } other {b}", "  ", "=12{x}=12{y} one{z}",
    "one {a}\fother {b}", "__proto__ {p} constructor {c} other {o}", "=2\f{two} other{o}" }

\* lines 207-222: get("t", params) in named mode enters interpolateNamed
ScanStart(params) ==
  /\ run.phase = "idle"
  /\ out = NoGet
  /\ "t" \in DOMAIN strings[1]
  /\ isNamedParams(params)
  /\ run' = [NoRun EXCEPT !.phase = "scan", !.args = params,
                          !.result = strings[1]["t"]]
  /\ UNCHANGED <<locales, componentCache, pluralRulesCache, strings, locale, calls,
                 out, parts, registeredPaths>>

\* parsePluralForms(formsStr, value) called on its own
FormsStart(formsStr, value) ==
  /\ run.phase = "idle"
  /\ out = NoGet
  /\ run' = [NoRun EXCEPT !.phase = "forms", !.direct = TRUE,
                          !.formsStr = formsStr, !.value = value]
  /\ UNCHANGED <<locales, componentCache, pluralRulesCache, strings, locale, calls,
                 out, parts, registeredPaths>>

\* lines 250-251: the exec at i, null when "{{" does not stand at i
execVarMatchAt(r) ==
  IF substring(r.result, r.i, r.i + 2) = "{{"
  THEN execVarMatch(substringFrom(r.result, r.i + 2))
  ELSE NoVarMatch

\* lines 252-260: a block of a number starts the search for its end with
\* j behind the match and depth 2; anything else is skipped with i++
scanOpen(r, varMatch) ==
  IF varMatch.matched /\ Lookup(r.args[1].m, varMatch.varName).t = "number"
  THEN [r EXCEPT !.phase = "close",
                 !.value = Lookup(r.args[1].m, varMatch.varName).n,
                 !.formsStart = r.i + 2 + varMatch.len,
                 !.j = r.i + 2 + varMatch.len, !.depth = 2]
  ELSE [r EXCEPT !.i = r.i + 1]

\* one iteration of the while loop of lines 248-285, up to its inner loop
ScanStep ==
  /\ run.phase = "scan"
  /\ run.i < Len(run.result)
  /\ \E varMatch \in {execVarMatchAt(run)} : run' = scanOpen(run, varMatch)
  /\ UNCHANGED <<locales, componentCache, pluralRulesCache, strings, locale, calls,
                 out, parts, registeredPaths>>

\* one iteration of the while loop of lines 262-272
CloseStep ==
  /\ run.phase = "close"
  /\ run.j < Len(run.result) /\ run.depth > 0
  /\ run' = [run EXCEPT !.j = run.j + 1,
                        !.depth = depthAfter(charAt(run.result, run.j), run.depth)]
  /\ UNCHANGED <<locales, componentCache, pluralRulesCache, strings, locale, calls,
                 out, parts, registeredPaths>>

\* a block that never closes, the index left where it was
scanUnclosedStays(r) == [r EXCEPT !.phase = "scan"]

\* lines 274-284 with depth # 0: i++
scanUnclosed(r) == [r EXCEPT !.phase = "scan", !.i = r.i + 1]

\* lines 274-276: the inner loop is over; a closed block has its forms
\* parsed, the text from behind the match to before the final }}
scanClosed(r) ==
  IF r.depth = 0
  THEN [r EXCEPT !.phase = "forms",
                 !.formsStr = substring(r.result, r.formsStart, r.j - 2),
                 !.fi = 0, !.forms = <<>>, !.exactMatches = <<>>]
  ELSE scanUnclosed(r)

CloseDone ==
  /\ run.phase = "close"
  /\ ~(run.j < Len(run.result) /\ run.depth > 0)
  /\ run' = scanClosed(run)
  /\ UNCHANGED <<locales, componentCache, pluralRulesCache, strings, locale, calls,
                 out, parts, registeredPaths>>

\* lines 358-363: the entry stored, the index behind its content
formsStore(r, key, c) ==
  IF key.isExact
  THEN [r EXCEPT !.fi = c.i,
                 !.exactMatches = Put(r.exactMatches, ToNumber(key.text), c.content)]
  ELSE IF key.text # ""
  THEN [r EXCEPT !.fi = c.i, !.forms = SetProperty(r.forms, key.text, c.content)]
  ELSE [r EXCEPT !.fi = c.i]

\* lines 325-343: the key starting at a, =N or a name, and the index b
\* behind the whitespace that follows it
formsKey(formsStr, a) ==
  IF charAt(formsStr, a) = "="
  THEN [isExact |-> TRUE,
        text |-> substring(formsStr, a + 1, DigitRunEnd(formsStr, a + 1)),
        b |-> SpaceRunEnd(formsStr, DigitRunEnd(formsStr, a + 1))]
  ELSE [isExact |-> FALSE,
        text |-> substring(formsStr, a, WordRunEnd(formsStr, a)),
        b |-> SpaceRunEnd(formsStr, WordRunEnd(formsStr, a))]

\* lines 319-343: the iteration goes on to a content block: the loop test
\* holds, text is left behind the whitespace, and "{" follows the key
formsOpens(formsStr, fi, a, b) ==
  fi < Len(formsStr) /\ a < Len(formsStr) /\ b < Len(formsStr)
    /\ charAt(formsStr, b) = "{"

\* one pass through the while loop of lines 319-364 that stores an entry
FormsStep ==
  /\ run.phase = "forms"
  /\ \E a \in {SpaceRunEnd(run.formsStr, run.fi)} :
       \E key \in {formsKey(run.formsStr, a)} :
         /\ formsOpens(run.formsStr, run.fi, a, key.b)
         /\ \E c \in {extractContent(run.formsStr, key.b + 1, 1, "")} :
              run' = formsStore(run, key, c)
  /\ UNCHANGED <<locales, componentCache, pluralRulesCache, strings, locale, calls,
                 out, parts, registeredPaths>>

\* lines 366-375 and 276-279: the selection; then the return of a call made
\* on its own, or the push and i = j of the scan
formsSelected(r, picked) ==
  IF picked.threw THEN [r EXCEPT !.phase = "threw"]
  ELSE IF r.direct THEN [r EXCEPT !.phase = "returned", !.returned = picked.val]
  ELSE [r EXCEPT !.phase = "scan", !.i = r.j,
                 !.rules = r.rules \/ picked.rules,
                 !.matches = Append(r.matches,
                                    [start |-> r.i, end |-> r.j,
                                     replacement |-> picked.val])]

\* lines 424-426: a call that went through getPluralForm and did not raise
\* has left the rules of the locale in I18n.pluralRulesCache
rulesCached(cache, loc, r) == IF r.rules THEN cache \cup {loc} ELSE cache

\* the loop of lines 319-364 is left, by its test or by a break, and the
\* function goes on to its return, through getPluralForm when no exact
\* match is found
FormsLeave ==
  /\ run.phase = "forms"
  /\ \E a \in {SpaceRunEnd(run.formsStr, run.fi)} :
       \E key \in {formsKey(run.formsStr, a)} :
         /\ ~formsOpens(run.formsStr, run.fi, a, key.b)
         /\ \E picked \in {selectParsed(locale[1], run.value,
                                        [forms |-> run.forms,
                                         exactMatches |-> run.exactMatches])} :
              /\ run' = formsSelected(run, picked)
              /\ pluralRulesCache' = rulesCached(pluralRulesCache, locale[1], picked)
  /\ UNCHANGED <<locales, componentCache, strings, locale, calls, out, parts,
                 registeredPaths>>

\* lines 287-291: the scan is over and the replacements are applied
ApplyMatches ==
  /\ run.phase = "scan"
  /\ run.i >= Len(run.result)
  /\ run' = [run EXCEPT !.phase = "second",
                        !.result = applyPluralMatches(run.result, run.matches,
                                                      Len(run.matches))]
  /\ UNCHANGED <<locales, componentCache, pluralRulesCache, strings, locale, calls,
                 out, parts, registeredPaths>>

\* the text up to the next place a match can start, copied as it is
copied(r) ==
  [r EXCEPT !.output = r.output \o substring(r.result, r.p,
                                             NextOpenBrace(r.result, r.p)),
            !.p = NextOpenBrace(r.result, r.p)]

\* the callback of the second pass returned or raised
autoReplaced(r, m, replacement) ==
  IF replacement.threw THEN [r EXCEPT !.phase = "threw"]
  ELSE [r EXCEPT !.output = r.output \o replacement.val, !.p = m.end,
                 !.rules = r.rules \/ replacement.rules]

\* lines 295-303: the callback on the match m; nothing is called when the
\* text at p is only copied
autoPluralCall(loc, r, m) ==
  IF m.matched THEN autoPluralReplacement(loc, m.word, m.countVar, r.args[1].m)
  ELSE Ok("", FALSE)

\* lines 295-303: the replace at position p, a match replaced or text copied
secondPassAt(r, m, replacement) ==
  IF m.matched THEN autoReplaced(r, m, replacement) ELSE copied(r)

SecondPassStep ==
  /\ run.phase = "second"
  /\ run.p < Len(run.result)
  /\ \E m \in {autoPluralMatch(run.result, run.p)} :
       \E replacement \in {autoPluralCall(locale[1], run, m)} :
         /\ run' = secondPassAt(run, m, replacement)
         /\ pluralRulesCache' = rulesCached(pluralRulesCache, locale[1], replacement)
  /\ UNCHANGED <<locales, componentCache, strings, locale, calls, out, parts,
                 registeredPaths>>

\* the replace has gone through the text: its output is the new result
passDone(r, phase) ==
  [r EXCEPT !.phase = phase, !.result = r.output, !.output = "", !.p = 0]

SecondPassDone ==
  /\ run.phase = "second"
  /\ run.p >= Len(run.result)
  /\ run' = passDone(run, "third")
  /\ UNCHANGED <<locales, componentCache, pluralRulesCache, strings, locale, calls,
                 out, parts, registeredPaths>>

\* lines 306-309: the replace at position p
thirdPassAt(r, m) ==
  IF m.matched
  THEN [r EXCEPT !.output = r.output
                    \o simpleVarReplacement(Lookup(r.args[1].m, m.varName),
                                            substring(r.result, r.p, m.end)),
                 !.p = m.end]
  ELSE copied(r)

ThirdPassStep ==
  /\ run.phase = "third"
  /\ run.p < Len(run.result)
  /\ \E m \in {simpleVarMatch(run.result, run.p)} : run' = thirdPassAt(run, m)
  /\ UNCHANGED <<locales, componentCache, pluralRulesCache, strings, locale, calls,
                 out, parts, registeredPaths>>

ThirdPassDone ==
  /\ run.phase = "third"
  /\ run.p >= Len(run.result)
  /\ run' = passDone(run, "return")
  /\ UNCHANGED <<locales, componentCache, pluralRulesCache, strings, locale, calls,
                 out, parts, registeredPaths>>

\* line 311 and the return of get, or its catch
scanResult(r) ==
  IF r.phase = "threw" THEN Returned(ERROR_VALUE, FALSE, "named")
  ELSE Returned(r.result, r.rules, "named")

ScanReturn ==
  /\ ~run.direct
  /\ run.phase \in {"return", "threw"}
  /\ run' = [run EXCEPT !.phase = "done"]
  /\ GetReturn(1, "t", run.args, scanResult(run))

ScanNext ==
  \/ \E params \in ScanParams : ScanStart(params)
  \/ \E formsStr \in FormsTexts, value \in 0..MaxCount : FormsStart(formsStr, value)
  \/ ScanStep
  \/ CloseStep
  \/ CloseDone
  \/ FormsStep
  \/ FormsLeave
  \/ ApplyMatches
  \/ SecondPassStep
  \/ SecondPassDone
  \/ ThirdPassStep
  \/ ThirdPassDone
  \/ ScanReturn

\* get is synchronous: once called it runs on until it returns
SpecScan == ScanInit /\ [][ScanNext]_vars /\ WF_vars(ScanNext)

\* C15: every iteration of the plural-block scan ends with its index moved
\* forward within the text, every iteration of the forms parser that stays
\* in the loop moves its index forward within the forms text, on the forms
\* handed over by the scan and on forms texts ending inside a content
\* block; a get that has entered the scan returns, with what get returns in
\* one piece, and a parse that has started returns or raises.
C15_Terminates ==
  /\ [][/\ (run.phase \in {"close", "forms"} /\ run'.phase = "scan")
             => run'.i > run.i /\ run'.i <= Len(run.result)
        /\ (run.phase = "scan" /\ run'.phase \in {"scan", "close"})
             => run.i < Len(run.result)
        /\ (run.phase = "scan" /\ run'.phase = "scan")
             => run'.i = run.i + 1
        /\ (run.phase = "forms" /\ run'.phase = "forms")
             => run'.fi > run.fi /\ run'.fi <= Len(run.formsStr)
        /\ run'.phase = "done"
             => out'.val = get(strings[1], locale[1], "t", run.args).val
        /\ run'.phase = "returned"
             => run'.returned
                  = parsePluralForms(locale[1], run.formsStr, run.value).val
       ]_vars
  /\ (~run.direct /\ run.phase = "scan") ~> (run.phase = "done" /\ out.inst = 1)
  /\ (run.direct /\ run.phase = "forms") ~> (run.phase \in {"returned", "threw"})

\* a parse of a forms text ending inside a content block has returned
C15_ParsedOpenContent ==
  /\ run.phase = "returned"
  /\ run.formsStr = "=1 {u} other {{{n}} o"
  /\ run.value = 2
  /\ locale[1] = "en"
  /\ run.returned = "{{n}} o"

====
